---- MODULE Spec2Model ----
(***************************************************************************)
(* A model of package minimessage (src/minimessage.go): Parse, modify,     *)
(* parseColor, fromName, gradient, lerpColor and lerpInt.                  *)
(*                                                                         *)
(* A Go string is modelled as a sequence of characters, each character a   *)
(* one-code-point TLA+ string; UTF8Len gives the number of bytes the       *)
(* character takes in the Go string, so that len(s) (bytes) and            *)
(* strings.Split(s, "") (characters) are computed as Go computes them.     *)
(***************************************************************************)
EXTENDS Integers, Sequences, FiniteSets, TLC

VARIABLES
    mini,        \* the argument of Parse
    frags,       \* strings.Split(mini, "<"), the range of the loop
    idx,         \* the position in frags the loop is at, from 1
    styles,      \* the style stack
    components,  \* the children collected
    pc,          \* "loop"; "done", Parse has returned; "panic", a run-time
                 \* panic has ended it.  Parse has no error result.
    ret          \* the *c.Text returned

vars == <<mini, frags, idx, styles, components, pc, ret>>

-----------------------------------------------------------------------------
(* Bounds of the model.                                                    *)

\* the number of pieces an input of Spec, SpecColor and SpecHover is built of
MaxFrags == 3
\* the number of stops of a gradient tag in SpecGradient
MaxStops == 5
\* the number of characters of a gradient's content in SpecGradient
MaxContent == 3

-----------------------------------------------------------------------------
(* Strings.                                                                *)

\* the two-byte character U+00E9 (e with acute accent)
EAcute == "U+00E9"

\* the bytes a character takes in a Go string (UTF-8)
UTF8Len(ch) == IF ch = EAcute THEN 2 ELSE 1

RECURSIVE ByteLen(_)
\* len(s): the number of bytes of the string
ByteLen(s) == IF s = <<>> THEN 0 ELSE UTF8Len(Head(s)) + ByteLen(Tail(s))

\* strings.Split(s, ""): one string per UTF-8 sequence
Explode(s) == [k \in 1..Len(s) |-> <<s[k]>>]

\* strings.HasPrefix(s, p)
HasPrefix(s, p) == Len(s) >= Len(p) /\ SubSeq(s, 1, Len(p)) = p

\* the positions of the character sep in s
SepPositions(s, sep) == {k \in 1..Len(s) : s[k] = sep}

RECURSIVE Split(_, _)
\* strings.Split(s, sep) for a one-character separator: every occurrence cuts
Split(s, sep) ==
    IF SepPositions(s, sep) = {}
    THEN <<s>>
    ELSE LET p == CHOOSE k \in SepPositions(s, sep) :
                      \A j \in SepPositions(s, sep) : k <= j
         IN  <<SubSeq(s, 1, p - 1)>> \o Split(SubSeq(s, p + 1, Len(s)), sep)

\* unicode simple folding, for the letters the inputs use
Fold(ch) ==
    CASE ch = "R" -> "r"
      [] ch = "E" -> "e"
      [] ch = "D" -> "d"
      [] OTHER -> ch

\* strings.EqualFold(a, b)
EqualFold(a, b) ==
    /\ Len(a) = Len(b)
    /\ \A k \in 1..Len(a) : Fold(a[k]) = Fold(b[k])

DigitValue(ch) ==
    CASE ch = "0" -> 0 [] ch = "1" -> 1 [] ch = "2" -> 2 [] ch = "3" -> 3
      [] ch = "4" -> 4 [] ch = "5" -> 5 [] ch = "6" -> 6 [] ch = "7" -> 7
      [] ch = "8" -> 8 [] ch = "9" -> 9 [] OTHER -> -1

HexValue(ch) ==
    CASE DigitValue(ch) >= 0 -> DigitValue(ch)
      [] ch = "a" -> 10 [] ch = "b" -> 11 [] ch = "c" -> 12
      [] ch = "d" -> 13 [] ch = "e" -> 14 [] ch = "f" -> 15
      [] OTHER -> -1

RECURSIVE DecimalValue(_)
DecimalValue(s) ==
    IF s = <<>> THEN 0
    ELSE 10 * DecimalValue(SubSeq(s, 1, Len(s) - 1)) + DigitValue(s[Len(s)])

\* strconv.Atoi(s) with the error dropped: 0 for a string that is no
\* (unsigned, short) decimal number
Atoi(s) ==
    IF s # <<>> /\ \A k \in 1..Len(s) : DigitValue(s[k]) >= 0
    THEN DecimalValue(s)
    ELSE 0

-----------------------------------------------------------------------------
(* Colors (package color of go.minekube.com/common, as minimessage.go uses *)
(* it).  A channel is a byte 0..255.                                       *)

\* a color.Color value: nil, a named color or an RGB color
NilColor == [kind |-> "nil", name |-> <<>>, r |-> 0, g |-> 0, b |-> 0]
Named(n, r, g, b) == [kind |-> "named", name |-> n, r |-> r, g |-> g, b |-> b]
RGB(r, g, b) == [kind |-> "rgb", name |-> <<>>, r |-> r, g |-> g, b |-> b]

White == Named(<<"w", "h", "i", "t", "e">>, 255, 255, 255)
Red == Named(<<"r", "e", "d">>, 255, 85, 85)
Blue == Named(<<"b", "l", "u", "e">>, 85, 85, 255)
Gold == Named(<<"g", "o", "l", "d">>, 255, 170, 0)

\* color.Names: the registry, by key (the entries the inputs use)
Names == {White, Red, Blue, Gold}

\* color.Make: any color as RGB
Make(col) == RGB(col.r, col.g, col.b)

\* color.Hex(s): "#" and six hex digits, or an error
Hex(s) ==
    IF /\ Len(s) = 7
       /\ s[1] = "#"
       /\ \A k \in 2..7 : HexValue(s[k]) >= 0
    THEN [err |-> FALSE,
          col |-> RGB(16 * HexValue(s[2]) + HexValue(s[3]),
                      16 * HexValue(s[4]) + HexValue(s[5]),
                      16 * HexValue(s[6]) + HexValue(s[7]))]
    ELSE [err |-> TRUE, col |-> NilColor]

HexDigit(v) ==
    CASE v < 10 -> <<"0", "1", "2", "3", "4", "5", "6", "7", "8", "9">>[v + 1]
      [] OTHER -> <<"a", "b", "c", "d", "e", "f">>[v - 9]

\* a channel q = [num, den] (a rational, in bytes) as the byte the color's
\* Hex() prints: uint8(x + 0.5)
RoundByte(q) == (2 * q.num + q.den) \div (2 * q.den)

\* (color).Hex(): "#rrggbb" of the rounded channels
FormatHex(col) ==
    LET r == RoundByte(col.r)
        g == RoundByte(col.g)
        b == RoundByte(col.b)
    IN  <<"#", HexDigit(r \div 16), HexDigit(r % 16),
               HexDigit(g \div 16), HexDigit(g % 16),
               HexDigit(b \div 16), HexDigit(b % 16)>>

\* fromName: the registry entry of that key, else the first entry whose
\* String() equals the name under case folding, else an error
fromName(name) ==
    IF \E a \in Names : a.name = name
    THEN [err |-> FALSE, col |-> CHOOSE a \in Names : a.name = name]
    ELSE IF \E a \in Names : EqualFold(a.name, name)
    THEN [err |-> FALSE, col |-> CHOOSE a \in Names : EqualFold(a.name, name)]
    ELSE [err |-> TRUE, col |-> NilColor]

\* parseColor: a hex color for a name that starts with "#", else a named one
parseColor(name) ==
    IF HasPrefix(name, <<"#">>) THEN Hex(name) ELSE fromName(name)

-----------------------------------------------------------------------------
(* Styles and text components (package component).                         *)

NoClick == [action |-> "nil", value |-> <<>>]
NoHover == [action |-> "nil", text |-> <<>>, item |-> <<>>, count |-> 0,
            nbt |-> <<>>]

\* c.Style{}: the zero value
ZeroStyle ==
    [Color |-> NilColor, Bold |-> "NotSet", Italic |-> "NotSet",
     Underlined |-> "NotSet", Strikethrough |-> "NotSet",
     Obfuscated |-> "NotSet", ClickEvent |-> NoClick, HoverEvent |-> NoHover]

\* c.Style{Color: color.White}: the style Parse seeds the stack with
DefaultStyle == [ZeroStyle EXCEPT !.Color = White]

\* &c.Text{Content: content, S: style, Extra: extra}
Text(content, style, extra) ==
    [nil |-> FALSE, Content |-> content, S |-> style, Extra |-> extra]

\* &c.Text{}
EmptyText == Text(<<>>, ZeroStyle, <<>>)

\* a nil *c.Text
NilText == [nil |-> TRUE, Content |-> <<>>, S |-> ZeroStyle, Extra |-> <<>>]

-----------------------------------------------------------------------------
(* The Gradient Engine: lerpInt, lerpColor, gradient.  A float64 is kept   *)
(* as an exact fraction [num, den] with den > 0.                           *)

\* lerpInt(t, a, b) = a*t + b*(1-t)
lerpInt(t, a, b) ==
    [num |-> a * t.num + b * (t.den - t.num), den |-> t.den]

\* lerpColor(t, colors...): panics when an index it reads is outside colors
lerpColor(t, colors) ==
    LET n == Len(colors)
        \* t = math.Min(t, 1)
        tm == IF t.num > t.den THEN [num |-> 1, den |-> 1] ELSE t
        whole(c) == [r |-> [num |-> c.r, den |-> 1],
                     g |-> [num |-> c.g, den |-> 1],
                     b |-> [num |-> c.b, den |-> 1]]
        nothing == whole(NilColor)
        \* colorT = t * float64(len(colors)-1), as a fraction over tm.den
        colorT == tm.num * (n - 1)
        \* int(colorT) and int(colorT+1): Go truncates towards zero
        lastIdx == IF colorT >= 0 THEN colorT \div tm.den
                   ELSE -((-colorT) \div tm.den)
        nextIdx == IF colorT + tm.den >= 0 THEN (colorT + tm.den) \div tm.den
                   ELSE -((-(colorT + tm.den)) \div tm.den)
        \* newT = colorT - math.Floor(colorT)
        newT == [num |-> colorT % tm.den, den |-> tm.den]
    IN  IF tm.num = tm.den
        THEN IF n = 0 THEN [panic |-> TRUE, col |-> nothing]
             ELSE [panic |-> FALSE, col |-> whole(colors[n])]
        ELSE IF lastIdx < 0 \/ lastIdx >= n \/ nextIdx < 0 \/ nextIdx >= n
        THEN [panic |-> TRUE, col |-> nothing]
        ELSE LET lastColor == colors[lastIdx + 1]
                 nextColor == colors[nextIdx + 1]
             IN  [panic |-> FALSE,
                  col |-> [r |-> lerpInt(newT, nextColor.r, lastColor.r),
                           g |-> lerpInt(newT, nextColor.g, lastColor.g),
                           b |-> lerpInt(newT, nextColor.b, lastColor.b)]]

\* the t that reaches 1 at the last leaf: id / (len(content) - 1)
gradientTToLast(id, content) ==
    [num |-> id,
     den |-> IF ByteLen(content) > 1 THEN ByteLen(content) - 1 ELSE 1]

\* the t of the leaf at 0-based position id: float64(id) / float64(len(content)),
\* len being the length in bytes
gradientT(id, content) == [num |-> id, den |-> ByteLen(content)]

\* gradient(content, style, colors...): one leaf per character of content, each
\* the style with its color replaced; panics when lerpColor does
gradient(content, style, colors) ==
    LET chars == Explode(content)
        lerp(k) == lerpColor(gradientT(k - 1, content), colors)
        leaf(k) == Text(chars[k],
                        [style EXCEPT !.Color = Hex(FormatHex(lerp(k).col)).col],
                        <<>>)
    IN  IF \E k \in 1..Len(chars) : lerp(k).panic
        THEN [panic |-> TRUE, text |-> NilText]
        ELSE [panic |-> FALSE,
              text |-> Text(<<>>, ZeroStyle, [k \in 1..Len(chars) |-> leaf(k)])]

-----------------------------------------------------------------------------
(* The Tag Resolver: modify.                                               *)

kColor == <<"c", "o", "l", "o", "r">>
kBold == <<"b", "o", "l", "d">>
kB == <<"b">>
kItalic == <<"i", "t", "a", "l", "i", "c">>
kEm == <<"e", "m">>
kI == <<"i">>
kUnderlined == <<"u", "n", "d", "e", "r", "l", "i", "n", "e", "d">>
kU == <<"u">>
kStrikethrough == <<"s", "t", "r", "i", "k", "e", "t", "h", "r", "o", "u", "g", "h">>
kSt == <<"s", "t">>
kObfuscated == <<"o", "b", "f", "u", "s", "c", "a", "t", "e", "d">>
kObf == <<"o", "b", "f">>
kClick == <<"c", "l", "i", "c", "k">>
kHover == <<"h", "o", "v", "e", "r">>
kGradient == <<"g", "r", "a", "d", "i", "e", "n", "t">>
kChangePage == <<"c", "h", "a", "n", "g", "e", "_", "p", "a", "g", "e">>
kCopyToClipboard == <<"c", "o", "p", "y", "_", "t", "o", "_", "c", "l", "i", "p", "b", "o", "a", "r", "d">>
kOpenFile == <<"o", "p", "e", "n", "_", "f", "i", "l", "e">>
kOpenUrl == <<"o", "p", "e", "n", "_", "u", "r", "l">>
kRunCommand == <<"r", "u", "n", "_", "c", "o", "m", "m", "a", "n", "d">>
kSuggestCommand == <<"s", "u", "g", "g", "e", "s", "t", "_", "c", "o", "m", "m", "a", "n", "d">>
kShowText == <<"s", "h", "o", "w", "_", "t", "e", "x", "t">>
kShowItem == <<"s", "h", "o", "w", "_", "i", "t", "e", "m">>
kShowEntity == <<"s", "h", "o", "w", "_", "e", "n", "t", "i", "t", "y">>

\* what a call of modify leaves: the component it returns ("text"), nil
\* ("nil") or a run-time panic ("panic"), and the style behind the pointer
Returned(text, style) == [kind |-> "text", text |-> text, style |-> style]
ReturnedNil(style) == [kind |-> "nil", text |-> NilText, style |-> style]
Panicked(style) == [kind |-> "panic", text |-> NilText, style |-> style]

\* style mutated, then newText.Content = content; newText.S = *style
Styled(content, style) == Returned(Text(content, style, <<>>), style)

\* case strings.HasPrefix(key, "#")
modifyHex(key, content, style) ==
    LET parsed == parseColor(key)
    IN  IF parsed.err THEN ReturnedNil(style)
        ELSE Styled(content, [style EXCEPT !.Color = parsed.col])

\* case strings.HasPrefix(key, "color")
modifyColor(key, content, style) ==
    LET parts == Split(key, ":")
    IN  IF Len(parts) < 2 THEN Panicked(style)
        ELSE LET parsed == parseColor(parts[2])
             IN  IF parsed.err THEN ReturnedNil(style)
                 ELSE Styled(content, [style EXCEPT !.Color = parsed.col])

ClickActions ==
    {kChangePage, kCopyToClipboard, kOpenFile, kOpenUrl, kRunCommand,
     kSuggestCommand}

\* case strings.HasPrefix(key, "click")
modifyClick(key, content, style) ==
    LET clickKey == Split(key, ":")
    IN  IF Len(clickKey) < 3 THEN Panicked(style)
        ELSE LET clickAction == clickKey[2]
                 clickValue == clickKey[3]
             IN  IF clickAction \in ClickActions
                 THEN Styled(content,
                             [style EXCEPT !.ClickEvent =
                                 [action |-> clickAction, value |-> clickValue]])
                 ELSE Styled(content, style)

\* case "show_item": the ShowItem built from hoverValue
showItem(hoverValue) ==
    LET showItemKeys == Split(hoverValue, ":")
        itemCount == IF Len(showItemKeys) >= 2 THEN Atoi(showItemKeys[2]) ELSE 0
        itemTag == IF Len(showItemKeys) = 3 THEN showItemKeys[3] ELSE <<>>
    IN  [action |-> kShowItem, text |-> <<>>, item |-> showItemKeys[1],
         count |-> itemCount, nbt |-> itemTag]

\* case strings.HasPrefix(key, "hover")
modifyHover(key, content, style) ==
    LET hoverKey == Split(key, ":")
    IN  IF Len(hoverKey) < 3 THEN Panicked(style)
        ELSE LET hoverAction == hoverKey[2]
                 hoverValue == hoverKey[3]
             IN  IF hoverAction = kShowText
                 THEN Styled(content,
                             [style EXCEPT !.HoverEvent =
                                 [NoHover EXCEPT !.action = kShowText,
                                                 !.text = hoverValue]])
                 ELSE IF hoverAction = kShowItem
                 THEN Styled(content,
                             [style EXCEPT !.HoverEvent = showItem(hoverValue)])
                 ELSE IF hoverAction = kShowEntity
                 THEN LET showEntityKeys == Split(hoverValue, ":")
                      IN  \* line 161 reads showEntityKeys[1] unguarded, and
                          \* hoverValue, a piece of a split on ":", holds no
                          \* ":": the read panics on every input, and the
                          \* Parse of the name (line 164) is never reached
                          IF Len(showEntityKeys) < 2 THEN Panicked(style)
                          ELSE Styled(content,
                                      [style EXCEPT !.HoverEvent =
                                          [NoHover EXCEPT
                                              !.action = kShowEntity,
                                              !.item = showEntityKeys[1],
                                              !.text = IF Len(showEntityKeys) = 3
                                                       THEN showEntityKeys[3]
                                                       ELSE <<>>]])
                 ELSE Styled(content, style)

\* case strings.HasPrefix(key, "gradient")
modifyGradient(key, content, style) ==
    LET colorKey == Split(key, ":")
        colorNames == Tail(colorKey)
        parsed == [k \in 1..Len(colorNames) |-> parseColor(colorNames[k])]
    IN  IF \E k \in 1..Len(colorNames) : parsed[k].err
        THEN ReturnedNil(style)
        ELSE LET colors == [k \in 1..Len(colorNames) |-> Make(parsed[k].col)]
                 g == gradient(content, style, colors)
             IN  IF g.panic THEN Panicked(style) ELSE Returned(g.text, style)

\* no case matches, and nil is returned
modifyDefaultNil(key, content, style) == ReturnedNil(style)

\* no case matches: newText stays the &c.Text{} of line 62 and is returned
modifyDefault(key, content, style) == Returned(EmptyText, style)

\* modify(key, content, style): the first case that matches
modify(key, content, style) ==
    IF HasPrefix(key, <<"#">>) THEN modifyHex(key, content, style)
    ELSE IF HasPrefix(key, kColor) THEN modifyColor(key, content, style)
    ELSE IF key = kBold \/ key = kB
    THEN Styled(content, [style EXCEPT !.Bold = "True"])
    ELSE IF key = kItalic \/ key = kEm \/ key = kI
    THEN Styled(content, [style EXCEPT !.Italic = "True"])
    ELSE IF key = kUnderlined \/ key = kU
    THEN Styled(content, [style EXCEPT !.Underlined = "True"])
    ELSE IF key = kStrikethrough \/ key = kSt
    THEN Styled(content, [style EXCEPT !.Strikethrough = "True"])
    ELSE IF key = kObfuscated \/ key = kObf
    THEN Styled(content, [style EXCEPT !.Obfuscated = "True"])
    ELSE IF HasPrefix(key, kClick) THEN modifyClick(key, content, style)
    ELSE IF HasPrefix(key, kHover) THEN modifyHover(key, content, style)
    ELSE IF HasPrefix(key, kGradient) THEN modifyGradient(key, content, style)
    ELSE modifyDefault(key, content, style)

-----------------------------------------------------------------------------
(* The parser: Parse.  One step of the model is one iteration of its loop  *)
(* over strings.Split(mini, "<").                                          *)

\* strings.Split(mini, "<")
Fragments(m) == Split(m, "<")

\* split := strings.Split(s, ">")
SplitFragment(s) == Split(s, ">")

\* a close that leaves the stack as it is
PopNothing(st) == st

\* styles = styles[:len(styles)-1]
Pop(st) == SubSeq(st, 1, Len(st) - 1)

\* a push of a fresh default style in place of a copy of the top
PushDefault(st) == Append(st, DefaultStyle)

\* styles = append(styles, styles[len(styles)-1])
Push(st) == Append(st, st[Len(st)])

\* strings.HasPrefix(key, "/")
IsClose(key) == HasPrefix(key, <<"/">>)

\* the call modify(key, split[1], &styles[len(styles)-1]) of line 49 and the
\* append of line 50, on the stack st the push or pop has left: a run-time
\* panic when split has no second element or the stack no top
Resolve(split, st, comps) ==
    IF Len(split) < 2 \/ Len(st) = 0
    THEN [pc |-> "panic", styles |-> st, components |-> comps]
    ELSE LET m == modify(split[1], split[2], st[Len(st)])
         IN  IF m.kind = "panic"
             THEN [pc |-> "panic", styles |-> st, components |-> comps]
             ELSE [pc |-> "loop",
                   styles |-> [st EXCEPT ![Len(st)] = m.style],
                   components |-> Append(comps, m.text)]

\* the fragment the loop is at
Current == frags[idx]

AtFragment == pc = "loop" /\ idx <= Len(frags)

\* if s == "" { continue }
SkipEmpty ==
    /\ AtFragment
    /\ Current = <<>>
    /\ idx' = idx + 1
    /\ UNCHANGED <<mini, frags, styles, components, pc, ret>>

\* an iteration for a fragment whose key does not start with "/"
OpenTag ==
    /\ AtFragment
    /\ Current # <<>>
    /\ ~IsClose(SplitFragment(Current)[1])
    /\ LET r == Resolve(SplitFragment(Current), Push(styles), components)
       IN  /\ styles' = r.styles
           /\ components' = r.components
           /\ pc' = r.pc
           /\ idx' = IF r.pc = "panic" THEN idx ELSE idx + 1
    /\ UNCHANGED <<mini, frags, ret>>

\* an iteration for a fragment whose key starts with "/"
CloseTag ==
    /\ AtFragment
    /\ Current # <<>>
    /\ IsClose(SplitFragment(Current)[1])
    /\ LET r == Resolve(SplitFragment(Current), Pop(styles), components)
       IN  /\ styles' = r.styles
           /\ components' = r.components
           /\ pc' = r.pc
           /\ idx' = IF r.pc = "panic" THEN idx ELSE idx + 1
    /\ UNCHANGED <<mini, frags, ret>>

\* return &c.Text{Extra: components}
Return ==
    /\ pc = "loop"
    /\ idx > Len(frags)
    /\ ret' = Text(<<>>, ZeroStyle, components)
    /\ pc' = "done"
    /\ UNCHANGED <<mini, frags, idx, styles, components>>

Next == SkipEmpty \/ OpenTag \/ CloseTag \/ Return

-----------------------------------------------------------------------------
(* Inputs.                                                                 *)

RECURSIVE Concat(_)
Concat(ps) == IF ps = <<>> THEN <<>> ELSE Head(ps) \o Concat(Tail(ps))

\* the strings made of at most n pieces of the pool
Pieces(pool, n) == {Concat(ps) : ps \in UNION {[1..k -> pool] : k \in 0..n}}

\* boolean style tags, closes, an unknown tag, text outside a tag, an
\* unterminated tag and a content that holds a ">"
StylePool ==
    {<<"<", "b", "o", "l", "d", ">", "h", "i">>,
     <<"<", "b", "o", "l", "d", ">", "<", "i", "t", "a", "l", "i", "c", ">", "x">>,
     <<"<", "i", "t", "a", "l", "i", "c", ">", "x">>,
     <<"<", "u", ">", "y">>,
     <<"<", "s", "t", ">">>,
     <<"<", "o", "b", "f", ">", "z">>,
     <<"<", "/", ">">>,
     <<"<", "/", "b", "o", "l", "d", ">">>,
     <<"<", "f", "o", "o", ">", "y">>,
     <<"h", "i">>,
     <<"<">>,
     <<"<", "b", "o", "l", "d", ">", "a", ">", "b">>,
     <<"<", "b", "o", "l", "d">>}

\* color tags with tokens the Color Resolver takes and rejects
ColorPool ==
    {<<"<", "#", "f", "f", "0", "0", "f", "f", ">", "h", "i">>,
     <<"<", "#", "z", "z", ">", "x">>,
     <<"<", "#", "g", "g", "g", "g", "g", "g", ">">>,
     <<"<", "c", "o", "l", "o", "r", ":", "r", "e", "d", ">", "x">>,
     <<"<", "c", "o", "l", "o", "r", ":", "R", "E", "D", ">", "y">>,
     <<"<", "c", "o", "l", "o", "r", ":", "n", "o", "p", "e", ">", "x">>,
     <<"<", "c", "o", "l", "o", "r", ">">>,
     <<"<", "g", "r", "a", "d", "i", "e", "n", "t", ":", "r", "e", "d", ":", "n", "o", "p", "e", ">", "a", "b">>,
     <<"<", "g", "r", "a", "d", "i", "e", "n", "t", ":", "b", "l", "u", "e", ":", "g", "o", "l", "d", ">", "a", "b">>,
     <<"<", "/", ">">>,
     <<"<", "b", "o", "l", "d", ">", "x">>}

\* hover and click tags
HoverPool ==
    {<<"<", "h", "o", "v", "e", "r", ":", "s", "h", "o", "w", "_", "i", "t", "e", "m", ":", "d", "i", "a", "m", "o", "n", "d", ":", "5", ">", "x">>,
     <<"<", "h", "o", "v", "e", "r", ":", "s", "h", "o", "w", "_", "i", "t", "e", "m", ":", "d", "i", "a", "m", "o", "n", "d", ">", "y">>,
     <<"<", "h", "o", "v", "e", "r", ":", "s", "h", "o", "w", "_", "i", "t", "e", "m", ":", "d", "i", "a", "m", "o", "n", "d", ":", "5", ":", "t", "a", "g", ">">>,
     <<"<", "h", "o", "v", "e", "r", ":", "s", "h", "o", "w", "_", "i", "t", "e", "m", ":", "d", "i", "a", "m", "o", "n", "d", ":", "x", ">">>,
     <<"<", "h", "o", "v", "e", "r", ":", "s", "h", "o", "w", "_", "t", "e", "x", "t", ":", "h", "e", "y", ">", "x">>,
     <<"<", "h", "o", "v", "e", "r", ":", "s", "h", "o", "w", "_", "e", "n", "t", "i", "t", "y", ":", "p", "i", "g", ":", "i", "d", ">">>,
     <<"<", "h", "o", "v", "e", "r", ":", "b", "o", "g", "u", "s", ":", "v", ">", "z">>,
     <<"<", "h", "o", "v", "e", "r", ">">>,
     <<"<", "c", "l", "i", "c", "k", ":", "r", "u", "n", "_", "c", "o", "m", "m", "a", "n", "d", ":", "/", "s", "e", "e", "d", ">", "x">>,
     <<"<", "c", "l", "i", "c", "k", ":", "b", "o", "g", "u", "s", ":", "v", ">">>,
     <<"<", "c", "l", "i", "c", "k", ">">>,
     <<"<", "/", ">">>,
     <<"<", "b", "o", "l", "d", ">", "x">>}

StopNames == {Red.name, Blue.name}

RECURSIVE StopList(_)
\* ":" and the name, for every stop
StopList(stops) ==
    IF stops = <<>> THEN <<>>
    ELSE <<":">> \o Head(stops) \o StopList(Tail(stops))

\* "<gradient:s1:...:sn>content"
GradientTag(stops, content) ==
    <<"<">> \o kGradient \o StopList(stops) \o <<">">> \o content

\* a gradient tag of at most MaxStops stops over a content of at most
\* MaxContent one- and two-byte characters, alone, inside a bold scope, closed
GradientInputs ==
    {pre \o GradientTag(stops, content) \o post :
        pre \in {<<>>, <<"<">> \o kBold \o <<">">>},
        post \in {<<>>, <<"<", "/", ">">>},
        stops \in UNION {[1..k -> StopNames] : k \in 0..MaxStops},
        content \in UNION {[1..k -> {"a", EAcute}] : k \in 0..MaxContent}}

\* the state Parse is in before its loop (lines 28-31)
Start ==
    /\ frags = Fragments(mini)
    /\ idx = 1
    /\ styles = <<DefaultStyle>>
    /\ components = <<>>
    /\ pc = "loop"
    /\ ret = NilText

Init == mini \in Pieces(StylePool, MaxFrags) /\ Start
InitColor == mini \in Pieces(ColorPool, MaxFrags) /\ Start
InitHover == mini \in Pieces(HoverPool, MaxFrags) /\ Start
InitGradient == mini \in GradientInputs /\ Start

Spec == Init /\ [][Next]_vars
SpecColor == InitColor /\ [][Next]_vars
SpecHover == InitHover /\ [][Next]_vars
SpecGradient == InitGradient /\ [][Next]_vars

-----------------------------------------------------------------------------
(* What the properties below speak of: the fragments of the input, read    *)
(* from the input alone.                                                   *)

\* the position of the first ">" of a fragment, 0 when it has none
FirstGt(f) ==
    IF SepPositions(f, ">") = {} THEN 0
    ELSE CHOOSE k \in SepPositions(f, ">") :
             \A j \in SepPositions(f, ">") : k <= j

\* the text before the first ">" of a fragment
TagKey(f) == IF FirstGt(f) = 0 THEN f ELSE SubSeq(f, 1, FirstGt(f) - 1)

\* all the text after the first ">" of a fragment
Remainder(f) == SubSeq(f, FirstGt(f) + 1, Len(f))

ClosesScope(f) == f # <<>> /\ f[1] = "/"

IsNonEmpty(f) == f # <<>>

\* the non-empty fragments the loop has gone through
Done == SelectSeq(SubSeq(frags, 1, idx - 1), IsNonEmpty)

\* those, and the fragment the loop stopped in when it panicked
Met == IF pc = "panic" THEN Append(Done, Current) ELSE Done

Opens(fs) == Cardinality({k \in 1..Len(fs) : ~ClosesScope(fs[k])})
Closes(fs) == Cardinality({k \in 1..Len(fs) : ClosesScope(fs[k])})

\* no prefix holds more closes than opens
WellFormed(fs) ==
    \A n \in 1..Len(fs) : Closes(SubSeq(fs, 1, n)) <= Opens(SubSeq(fs, 1, n))

BoldKeys == {kBold, kB}
ItalicKeys == {kItalic, kEm, kI}
UnderlinedKeys == {kUnderlined, kU}
StrikethroughKeys == {kStrikethrough, kSt}
ObfuscatedKeys == {kObfuscated, kObf}

BooleanKeys ==
    BoldKeys \cup ItalicKeys \cup UnderlinedKeys \cup StrikethroughKeys
        \cup ObfuscatedKeys

\* the key matches a pattern of the Tag Resolver
Recognized(key) ==
    \/ key \in BooleanKeys
    \/ \E p \in {<<"#">>, kColor, kClick, kHover, kGradient} : HasPrefix(key, p)

RECURSIVE ScopesAfter(_)
\* the keys of the scopes that are open after the fragments fs, outermost first
ScopesAfter(fs) ==
    IF fs = <<>> THEN <<>>
    ELSE LET before == ScopesAfter(SubSeq(fs, 1, Len(fs) - 1))
             f == fs[Len(fs)]
         IN  IF ClosesScope(f)
             THEN SubSeq(before, 1, Len(before) - 1)
             ELSE Append(before, TagKey(f))

Flag(scopes, keys) ==
    IF \E k \in 1..Len(scopes) : scopes[k] \in keys THEN "True" ELSE "NotSet"

\* the seeded default and the mutations of the boolean tags among scopes
StyleOfScopes(scopes) ==
    [DefaultStyle EXCEPT !.Bold = Flag(scopes, BoldKeys),
                         !.Italic = Flag(scopes, ItalicKeys),
                         !.Underlined = Flag(scopes, UnderlinedKeys),
                         !.Strikethrough = Flag(scopes, StrikethroughKeys),
                         !.Obfuscated = Flag(scopes, ObfuscatedKeys)]

-----------------------------------------------------------------------------
(* The style stack.                                                        *)

\* C1: as long as no prefix of the fragments met holds more closes than opens,
\* the depth of the style stack is 1 + opens - closes, so at least 1: every
\* close fragment pops once, whatever follows its "/".
C1_StackDepth ==
    WellFormed(Met) =>
        /\ Len(styles) = 1 + Opens(Met) - Closes(Met)
        /\ Len(styles) >= 1

\* C1: a parse that returned after two opens and one close by name
C1_Witness ==
    /\ pc = "done"
    /\ WellFormed(Done)
    /\ Opens(Done) = 2
    /\ Closes(Done) = 1
    /\ \E k \in 1..Len(Done) : ClosesScope(Done[k]) /\ Len(TagKey(Done[k])) > 1
    /\ Len(styles) = 2

\* C2: a close fragment met with only the seeded style on the stack makes Parse
\* return an error, and the stack is never left empty.  (Parse has no error
\* result: pc is never "error".)
C2_UnderflowIsAnError ==
    /\ Len(styles) >= 1
    /\ ~WellFormed(Met) => pc = "error"

C4_StyleOfOpenScopes ==
    \A j \in 1..Len(components) :
        (j <= Len(Done) /\ TagKey(Done[j]) \in BooleanKeys) =>
            components[j].S = StyleOfScopes(ScopesAfter(SubSeq(Done, 1, j)))

\* C4: "<bold><italic>x</><u>y" has returned: x is bold and italic, y is bold
\* and underlined and not italic, and x has stayed as it was
C4_Witness ==
    /\ pc = "done"
    /\ Len(components) = 4
    /\ components[2].S = [DefaultStyle EXCEPT !.Bold = "True", !.Italic = "True"]
    /\ ClosesScope(Done[3])
    /\ components[4].S =
           [DefaultStyle EXCEPT !.Bold = "True", !.Underlined = "True"]

\* C6: a non-empty fragment without ">" makes Parse return a
\* MalformedTagError.  (Parse has no error result: pc is never "error".)
C6_MissingGtIsAnError ==
    (\E k \in 1..Len(Met) : FirstGt(Met[k]) = 0) => pc = "error"

\* C10: the content of the node of a fragment is all the text after the
\* fragment's first ">".
C10_ContentIsRemainder ==
    \A j \in 1..Len(components) :
        (j <= Len(Done) /\ TagKey(Done[j]) \in BooleanKeys) =>
            components[j].Content = Remainder(Done[j])

-----------------------------------------------------------------------------
(* Color errors.                                                           *)

\* the color tokens of a key: the key of a "#" tag, the name of a color tag,
\* the stops of a gradient tag
ColorTokens(key) ==
    IF HasPrefix(key, <<"#">>) THEN <<key>>
    ELSE IF HasPrefix(key, kColor)
    THEN IF Len(Split(key, ":")) >= 2 THEN <<Split(key, ":")[2]>> ELSE <<>>
    ELSE IF HasPrefix(key, kGradient) THEN Tail(Split(key, ":"))
    ELSE <<>>

\* the Color Resolver rejects a token of the fragment's tag
Rejected(f) ==
    \E k \in 1..Len(ColorTokens(TagKey(f))) :
        parseColor(ColorTokens(TagKey(f))[k]).err

\* C5: a color token the Color Resolver rejects makes Parse return the error:
\* no child of the tree is nil, and no later fragment is gone through.
\* (Parse has no error result: pc is never "error".)
C5_ColorErrorSurfaces ==
    /\ \A j \in 1..Len(components) : ~components[j].nil
    /\ (\E k \in 1..Len(Met) : Rejected(Met[k])) => pc = "error"

-----------------------------------------------------------------------------
(* Hover events.                                                           *)

\* the key is hover:show_item:<type>[:<count>[:<nbt>]]
IsShowItem(key) ==
    /\ HasPrefix(key, kHover)
    /\ Len(Split(key, ":")) \in 3..5
    /\ Split(key, ":")[2] = kShowItem

\* the ShowItem the key writes
WrittenShowItem(key) ==
    LET parts == Split(key, ":")
    IN  [action |-> kShowItem, text |-> <<>>, item |-> parts[3],
         count |-> IF Len(parts) >= 4 THEN Atoi(parts[4]) ELSE 0,
         nbt |-> IF Len(parts) >= 5 THEN parts[5] ELSE <<>>]

\* C9: the hoverEvent of a show_item tag has the count and the nbt payload the
\* tag writes (0 and empty when left out).
C9_ShowItemCount ==
    \A j \in 1..Len(components) :
        (j <= Len(Done) /\ IsShowItem(TagKey(Done[j]))) =>
            components[j].S.HoverEvent = WrittenShowItem(TagKey(Done[j]))

-----------------------------------------------------------------------------
(* Gradients.                                                              *)

IsGradient(f) == HasPrefix(TagKey(f), kGradient) /\ FirstGt(f) > 0

\* the stops of a gradient fragment, as RGB
StopsOf(f) ==
    LET names == Tail(Split(TagKey(f), ":"))
    IN  [k \in 1..Len(names) |-> Make(parseColor(names[k]).col)]

\* C7: a gradient of at least one stop over a content of N characters
\* completes, with N leaves, one per character in order.
C7_GradientCompletes ==
    \A k \in 1..Len(Met) :
        (IsGradient(Met[k]) /\ Len(StopsOf(Met[k])) >= 1) =>
            /\ k <= Len(components)
            /\ Len(components[k].Extra) = Len(Remainder(Met[k]))
            /\ \A i \in 1..Len(components[k].Extra) :
                   components[k].Extra[i].Content = <<Remainder(Met[k])[i]>>

Abs(x) == IF x < 0 THEN -x ELSE x

\* the byte c is a nearest byte to num/den
Nearest(c, num, den) == 2 * Abs(c * den - num) <= den

\* the color col is the interpolation of the stops at t = i/n, each channel
\* rounded to a nearest byte: scaledT = t*(len-1), segmentIndex its floor,
\* localT the rest
Interpolated(col, i, n, stops) ==
    LET scaled == i * (Len(stops) - 1)
        seg == scaled \div n
        loc == scaled % n
        from == stops[seg + 1]
        to == stops[seg + 2]
    IN  /\ col.kind = "rgb"
        /\ Nearest(col.r, loc * to.r + (n - loc) * from.r, n)
        /\ Nearest(col.g, loc * to.g + (n - loc) * from.g, n)
        /\ Nearest(col.b, loc * to.b + (n - loc) * from.b, n)

\* the gradient fragments gone through that have two stops or more
Gradients ==
    {k \in 1..Len(components) :
        k <= Len(Done) /\ IsGradient(Done[k]) /\ Len(StopsOf(Done[k])) >= 2}

\* C8, as stated: with N the number of characters of the content, leaf i has
\* the color interpolated at t = i/N; the first leaf has the first stop's
\* color; for N > 1 the last leaf has not the last stop's color when the last
\* two stops differ.
C8_LeafColorByCharacters ==
    \A k \in Gradients :
        LET leaves == components[k].Extra
            stops == StopsOf(Done[k])
            n == Len(Remainder(Done[k]))
        IN  /\ \A i \in 1..Len(leaves) :
                   Interpolated(leaves[i].S.Color, i - 1, n, stops)
            /\ Len(leaves) >= 1 => leaves[1].S.Color = stops[1]
            /\ (n > 1 /\ stops[Len(stops) - 1] # stops[Len(stops)]) =>
                   leaves[Len(leaves)].S.Color # stops[Len(stops)]

\* C8, amended: with B the length of the content in bytes (the number of
\* characters only when each takes one byte), leaf i has the color
\* interpolated at t = i/B; the first leaf has the first stop's color.
C8_LeafColorByBytes ==
    \A k \in Gradients :
        LET leaves == components[k].Extra
            stops == StopsOf(Done[k])
            b == ByteLen(Remainder(Done[k]))
        IN  /\ \A i \in 1..Len(leaves) :
                   Interpolated(leaves[i].S.Color, i - 1, b, stops)
            /\ Len(leaves) >= 1 => leaves[1].S.Color = stops[1]

\* C8: parse("<gradient:red:blue>aa") has returned: the first leaf is red, the
\* second the midpoint of red and blue, not blue
C8_Witness ==
    /\ pc = "done"
    /\ mini = GradientTag(<<Red.name, Blue.name>>, <<"a", "a">>)
    /\ Len(ret.Extra[1].Extra) = 2
    /\ ret.Extra[1].Extra[1].S.Color = RGB(255, 85, 85)
    /\ ret.Extra[1].Extra[2].S.Color = RGB(170, 85, 170)

====
